---- MODULE Spec2Model ----
(***************************************************************************)
(* Model of the daily GitHub -> Google Sheets ETL job                      *)
(* (daily_ai_startups.py, sheets_writer.py).                               *)
(*                                                                         *)
(* The job is one sequential process.  Its state is the position in the    *)
(* topic x keyword loops, the current search response, the `seen` dict,    *)
(* the resulting DataFrame and the worksheet.  The environment is the      *)
(* GitHub index (a catalogue of repositories whose star counts and ages    *)
(* move while the job runs), the HTTP outcomes of every request, and the   *)
(* Sheets API.  Time is counted in whole days.                             *)
(***************************************************************************)
EXTENDS Integers, Sequences, FiniteSets, TLC

(* ------------------------------ configuration ---------------------------- *)

TOPICS == <<"ai", "machine-learning", "deep-learning", "generative-ai">>

KEYWORDS == <<"\"pre-seed\"", "\"seed round\"", "MVP", "\"early stage\"", "\"YC W\"">>

MAX_STARS == 200

MAX_FORKS == 50

MAX_CONTRIB == 20

RESULT_TARGET == 30

SEARCH_PER_PAGE == 100

(* Day numbers are relative to the day the module is imported (day 0).     *)
SINCE_DATE == 0 - 365

(* ------------------------------ bounds ----------------------------------- *)

(* Number of repositories in the GitHub index.                             *)
NumRepos == 36

(* Midnights (UTC) that may pass while the job runs.                       *)
MaxDaysElapsed == 1

(* Stars the volatile repository may gain while the job runs.              *)
MaxNewStars == 1

(* ------------------------------ environment ------------------------------ *)

None == "None"

(* The repositories of the index on day 0: stars, forks, age in days,      *)
(* sponsorship, number of contributors, description.                       *)
Base(i) ==
    CASE i = 1 -> [stars |-> 5,   forks |-> 0,  age0 |-> 10,  fork |-> FALSE,
                   sponsors |-> FALSE, contributors |-> 1,  description |-> "agents"]
      [] i = 2 -> [stars |-> 250, forks |-> 10, age0 |-> 40,  fork |-> FALSE,
                   sponsors |-> FALSE, contributors |-> 3,  description |-> "agents"]
      [] i = 3 -> [stars |-> 80,  forks |-> 5,  age0 |-> 400, fork |-> FALSE,
                   sponsors |-> FALSE, contributors |-> 2,  description |-> "agents"]
      [] i = 4 -> [stars |-> 10,  forks |-> 1,  age0 |-> 365, fork |-> FALSE,
                   sponsors |-> FALSE, contributors |-> 1,  description |-> "agents"]
      [] i = 5 -> [stars |-> 20,  forks |-> 60, age0 |-> 100, fork |-> FALSE,
                   sponsors |-> FALSE, contributors |-> 4,  description |-> "agents"]
      [] i = 6 -> [stars |-> 30,  forks |-> 2,  age0 |-> 200, fork |-> FALSE,
                   sponsors |-> FALSE, contributors |-> 25, description |-> "agents"]
      [] i = 7 -> [stars |-> 150, forks |-> 3,  age0 |-> 275, fork |-> FALSE,
                   sponsors |-> TRUE,  contributors |-> 0,  description |-> None]
      [] i = 8 -> [stars |-> 60,  forks |-> 0,  age0 |-> 20,  fork |-> TRUE,
                   sponsors |-> FALSE, contributors |-> 1,  description |-> "agents"]
      [] OTHER -> [stars |-> 100 + i, forks |-> 0, age0 |-> 2 * i, fork |-> FALSE,
                   sponsors |-> FALSE, contributors |-> 1,  description |-> "agents"]

(* The JSON object the search API returns for repository i when the        *)
(* volatile repository (1) has gained `gained` stars.                      *)
RepoJson(i, gained) ==
    [full_name        |-> i,
     html_url         |-> <<"https://github.com", i>>,
     created_at       |-> 0 - Base(i).age0,
     stargazers_count |-> Base(i).stars + (IF i = 1 THEN gained ELSE 0),
     forks_count      |-> Base(i).forks,
     fork             |-> Base(i).fork,
     archived         |-> FALSE,
     has_sponsors     |-> Base(i).sponsors,
     description      |-> Base(i).description,
     contributors_url |-> i]

(* The sets of repositories a topic + keyword text match may produce.      *)
HitSets == {1..n : n \in {0, 3, NumRepos}}

(* HTTP statuses the GitHub API answers with.                              *)
Statuses == {200, 403, 500}

(* Exceptions requests.get raises without any HTTP response.               *)
TransportErrors == {"Timeout", "ConnectionError"}

(* ------------------------------ state ------------------------------------ *)

VARIABLES
    today,       \* whole days elapsed since the module was imported
    gained,      \* stars the volatile repository has gained since then
    pc,          \* "search", "items", "clear", "update", "exited", "crashed"
    ti,          \* index into TOPICS of the outer loop
    ki,          \* index into KEYWORDS of the inner loop
    hits,        \* repositories the last search matched by topic and keyword
    items,       \* items of the last successful search response
    idx,         \* position of the `for repo in items` loop
    seen,        \* the dict `seen`, as its values in insertion order
    df,          \* rows of the DataFrame collect_candidates returned
    warned,      \* main printed the "no repositories found" warning
    sheet,       \* contents of the worksheet (rows of cells)
    error,       \* the uncaught exception that ended the process, or None
    exit_code,   \* <<status>> once the process has ended, <<>> while it runs
    calls,       \* requests and sleeps issued by the last step of the job
    unpaced,     \* a contributor lookup was issued and no sleep has followed it
    arg_repo,    \* calc_score called on its own: argument repo
    arg_age,     \* calc_score called on its own: argument age_days
    ret_score    \* calc_score called on its own: <<value returned>>, <<>> before

vars == <<today, gained, pc, ti, ki, hits, items, idx, seen, df, warned,
          sheet, error, exit_code, calls, unpaced, arg_repo, arg_age, ret_score>>

envVars == <<today, gained>>

scoreVars == <<arg_repo, arg_age, ret_score>>

loopVars == <<pc, ti, ki, items, idx>>

(* ------------------------------ helpers ---------------------------------- *)

Min(a, b) == IF a < b THEN a ELSE b

(* max(score, 0) of line 110 *)
Max(a, b) == IF a > b THEN a ELSE b

(* The query without its stars:<MAX_STARS qualifier.                        *)
Qualifies_NoStars(r) ==
    /\ r.created_at >= SINCE_DATE
    /\ r.forks_count < MAX_FORKS
    /\ r.fork = FALSE
    /\ r.archived = FALSE

(* Qualifiers of the query string q: created:>=SINCE_DATE stars:<MAX_STARS  *)
(* forks:<MAX_FORKS fork:false archived:false.                              *)
Qualifies(r) ==
    /\ r.created_at >= SINCE_DATE
    /\ r.stargazers_count < MAX_STARS
    /\ r.forks_count < MAX_FORKS
    /\ r.fork = FALSE
    /\ r.archived = FALSE

(* sort=stars, order=asc: the repositories of S by ascending star count.    *)
RECURSIVE ByStarsAsc(_)
ByStarsAsc(S) ==
    IF S = {} THEN <<>>
    ELSE LET m == CHOOSE r \in S : \A o \in S : r.stargazers_count <= o.stargazers_count
         IN  <<m>> \o ByStarsAsc(S \ {m})

(* First n elements of a sequence: per_page of the API, DataFrame.head.     *)
head(s, n) == SubSeq(s, 1, Min(Len(s), n))

(* The "items" array of a successful search response.                       *)
github_search(matched, stars_gained) ==
    head(ByStarsAsc({r \in {RepoJson(i, stars_gained) : i \in matched} : Qualifies(r)}),
         SEARCH_PER_PAGE)

(* resp.raise_for_status(): HTTPError for 4xx and 5xx.                       *)
RaisesForStatus(status) == status >= 400 /\ status < 600

(* The HTTP response of the contributors endpoint (per_page=1) for a        *)
(* repository with n contributors: the Link header names the last page      *)
(* only when there is more than one page.                                   *)
ContributorsResponse(status, n) ==
    [status_code |-> status,
     link_last   |-> IF status = 200 /\ n > 1 THEN n ELSE 0,
     json_len    |-> IF status = 200 THEN Min(n, 1) ELSE 1]

contributors_count(resp) ==
    IF resp.status_code # 200 THEN 0
    ELSE IF resp.link_last # 0 THEN resp.link_last
    ELSE resp.json_len

(* calc_score returning `score` instead of max(score, 0).                   *)
calc_score_NoFloor(r, age) ==
    (MAX_STARS - r.stargazers_count) + (365 - age)
    + (IF r.has_sponsors = TRUE THEN 50 ELSE 0)

calc_score(r, age) ==
    LET base  == (MAX_STARS - r.stargazers_count) + (365 - age)
        bonus == IF r.has_sponsors = TRUE THEN 50 ELSE 0
    IN  Max(base + bonus, 0)

(* The membership test left out.                                            *)
AlreadySeen_Never(d, full_name) == FALSE

(* `full_name in seen` *)
AlreadySeen(d, full_name) == \E i \in 1..Len(d) : d[i].name = full_name

(* The age test left out.                                                   *)
TooOld_Never(age) == FALSE

(* `age_days > 365` *)
TooOld(age) == age > 365

(* `contribs >= MAX_CONTRIB` *)
TooManyContributors(contribs) == contribs >= MAX_CONTRIB

(* seen[full_name] = rec: a dict keeps the position of a key it already has *)
DictSet(d, rec) ==
    IF \E i \in 1..Len(d) : d[i].name = rec.name
    THEN [i \in 1..Len(d) |-> IF d[i].name = rec.name THEN rec ELSE d[i]]
    ELSE Append(d, rec)

(* The record collect_candidates stores for an accepted repository.          *)
Record(r, age) ==
    [name        |-> r.full_name,
     url         |-> r.html_url,
     created     |-> r.created_at,
     stars       |-> r.stargazers_count,
     score       |-> calc_score(r, age),
     description |-> IF r.description = None THEN "" ELSE r.description]

(* DataFrame.sort_values("score", ascending=False) with the default          *)
(* (unstable) quicksort: every order of the rows by non-increasing score.    *)
RECURSIVE Orders(_, _)
Orders(rows, I) ==
    IF I = {} THEN {<<>>}
    ELSE LET top == {i \in I : \A j \in I : rows[j].score <= rows[i].score}
         IN  UNION {{<<rows[i]>> \o t : t \in Orders(rows, I \ {i})} : i \in top}

Reverse(s) == [i \in 1..Len(s) |-> s[Len(s) + 1 - i]]

(* sort_values with ascending=True.                                         *)
sort_values_Ascending(rows) == {Reverse(o) : o \in Orders(rows, 1..Len(rows))}

sort_values(rows) == Orders(rows, 1..Len(rows))

Columns == <<"name", "url", "created", "stars", "score", "description">>

(* [df.columns.to_list()] + df.astype(str).values.tolist() *)
SheetValues(rows) ==
    <<IF rows = <<>> THEN <<>> ELSE Columns>>
    \o [i \in 1..Len(rows) |->
          <<ToString(rows[i].name), ToString(rows[i].url), ToString(rows[i].created),
            ToString(rows[i].stars), ToString(rows[i].score), rows[i].description>>]

(* ------------------------------ initial state ---------------------------- *)

InitJob ==
    /\ today = 0
    /\ gained = 0
    /\ pc = "search"
    /\ ti = 1
    /\ ki = 1
    /\ hits = {}
    /\ items = <<>>
    /\ idx = 0
    /\ seen = <<>>
    /\ df = <<>>
    /\ warned = FALSE
    /\ sheet = <<<<"rows of the previous run">>>>
    /\ error = None
    /\ exit_code = <<>>
    /\ calls = <<>>
    /\ unpaced = FALSE

InitScore ==
    /\ arg_repo = [stargazers_count |-> 0, has_sponsors |-> FALSE]
    /\ arg_age = 0
    /\ ret_score = <<>>

Init ==
    /\ InitJob
    /\ InitScore

(* Arguments calc_score is applied to when it is checked on its own.         *)
ScoreStars == {0, 5, 80, MAX_STARS - 1, MAX_STARS, 250, 565, 566, 1000}

ScoreAges == {0 - 1, 0, 10, 364, 365, 366, 400, 800}

InitAnyScore ==
    /\ InitJob
    /\ arg_repo \in [stargazers_count : ScoreStars, has_sponsors : BOOLEAN]
    /\ arg_age \in ScoreAges
    /\ ret_score = <<>>

(* ------------------------------ environment steps ------------------------ *)

(* Midnight UTC passes between two searches.                                 *)
Tick ==
    /\ pc = "search"
    /\ today < MaxDaysElapsed
    /\ today' = today + 1
    /\ UNCHANGED <<gained, pc, ti, ki, hits, items, idx, seen, df, warned, sheet,
                   error, exit_code, calls, unpaced, scoreVars>>

(* Somebody stars the volatile repository between two searches.              *)
Star ==
    /\ pc = "search"
    /\ gained < MaxNewStars
    /\ gained' = gained + 1
    /\ UNCHANGED <<today, pc, ti, ki, hits, items, idx, seen, df, warned, sheet,
                   error, exit_code, calls, unpaced, scoreVars>>

(* ------------------------------ collect_candidates ----------------------- *)

(* An uncaught exception ends the process with a traceback and status 1.     *)
Crash(exc) ==
    /\ pc' = "crashed"
    /\ error' = exc
    /\ exit_code' = <<1>>

(* The loops are exhausted: build the DataFrame, sort it, return its head.   *)
(* An empty DataFrame has no "score" column, so sort_values raises KeyError. *)
Return(d) ==
    /\ ti' = Len(TOPICS) + 1
    /\ ki' = 1
    /\ items' = <<>>
    /\ idx' = 0
    /\ IF d = <<>>
       THEN Crash("KeyError") /\ df' = df
       ELSE /\ \E sorted \in sort_values(d) : df' = head(sorted, RESULT_TARGET)
            /\ pc' = "clear"
            /\ UNCHANGED <<error, exit_code>>

(* `continue` of the `for kw` loop, or its end.                              *)
NextQuery(d) ==
    IF ki < Len(KEYWORDS)
    THEN /\ ki' = ki + 1
         /\ pc' = "search"
         /\ items' = <<>>
         /\ idx' = 0
         /\ UNCHANGED <<ti, df, error, exit_code>>
    ELSE IF ti < Len(TOPICS)
    THEN /\ ti' = ti + 1
         /\ ki' = 1
         /\ pc' = "search"
         /\ items' = <<>>
         /\ idx' = 0
         /\ UNCHANGED <<df, error, exit_code>>
    ELSE Return(d)

(* `continue` of the `for repo in items` loop, or its end.                   *)
NextItem(d) ==
    IF idx < Len(items)
    THEN /\ idx' = idx + 1
         /\ UNCHANGED <<pc, ti, ki, items, df, error, exit_code>>
    ELSE NextQuery(d)

(* requests.get raises before any response: not an HTTPError, not caught.    *)
SearchRaises ==
    /\ pc = "search"
    /\ \E exc \in TransportErrors : Crash(exc)
    /\ hits' = {}
    /\ calls' = <<"search">>
    /\ unpaced' = FALSE
    /\ UNCHANGED <<envVars, ti, ki, items, idx, seen, df, warned, sheet, scoreVars>>

(* raise_for_status raises HTTPError: caught, printed, `continue`.           *)
SearchHTTPError ==
    /\ pc = "search"
    /\ \E status \in Statuses : RaisesForStatus(status)
    /\ NextQuery(seen)
    /\ hits' = {}
    /\ calls' = <<"search">>
    /\ unpaced' = FALSE
    /\ UNCHANGED <<envVars, seen, warned, sheet, scoreVars>>

(* A 200 response: its items become the inner loop's sequence.               *)
SearchOk ==
    /\ pc = "search"
    /\ \E status \in Statuses, matched \in HitSets :
         /\ ~RaisesForStatus(status)
         /\ hits' = matched
         /\ LET found == github_search(matched, gained)
            IN  IF found = <<>>
                THEN NextQuery(seen)
                ELSE /\ items' = found
                     /\ idx' = 1
                     /\ pc' = "items"
                     /\ UNCHANGED <<ti, ki, df, error, exit_code>>
    /\ calls' = <<"search">>
    /\ unpaced' = FALSE
    /\ UNCHANGED <<envVars, seen, warned, sheet, scoreVars>>

(* repo / age_days of the current iteration of `for repo in items`.          *)
cur == items[idx]

cur_age == today - cur.created_at

(* `if full_name in seen: continue` *)
SkipSeen ==
    /\ pc = "items"
    /\ AlreadySeen(seen, cur.full_name)
    /\ NextItem(seen)
    /\ calls' = <<>>
    /\ UNCHANGED <<envVars, hits, seen, warned, sheet, unpaced, scoreVars>>

(* `if age_days > 365: continue` *)
SkipOld ==
    /\ pc = "items"
    /\ ~AlreadySeen(seen, cur.full_name)
    /\ TooOld(cur_age)
    /\ NextItem(seen)
    /\ calls' = <<>>
    /\ UNCHANGED <<envVars, hits, seen, warned, sheet, unpaced, scoreVars>>

(* requests.get in contributors_count raises: nothing catches it.            *)
LookupRaises ==
    /\ pc = "items"
    /\ ~AlreadySeen(seen, cur.full_name)
    /\ ~TooOld(cur_age)
    /\ \E exc \in TransportErrors : Crash(exc)
    /\ calls' = <<"contributors">>
    /\ unpaced' = TRUE
    /\ UNCHANGED <<envVars, ti, ki, hits, items, idx, seen, df, warned, sheet, scoreVars>>

(* `if contribs >= MAX_CONTRIB: continue` -- the sleep is skipped too.       *)
RejectContributors ==
    /\ pc = "items"
    /\ ~AlreadySeen(seen, cur.full_name)
    /\ ~TooOld(cur_age)
    /\ \E status \in Statuses :
         TooManyContributors(contributors_count(
             ContributorsResponse(status, Base(cur.contributors_url).contributors)))
    /\ NextItem(seen)
    /\ calls' = <<"contributors">>
    /\ unpaced' = TRUE
    /\ UNCHANGED <<envVars, hits, seen, warned, sheet, scoreVars>>

(* The repository is stored in `seen`, then time.sleep(0.2).                 *)
Accept ==
    /\ pc = "items"
    /\ ~AlreadySeen(seen, cur.full_name)
    /\ ~TooOld(cur_age)
    /\ \E status \in Statuses :
         ~TooManyContributors(contributors_count(
             ContributorsResponse(status, Base(cur.contributors_url).contributors)))
    /\ seen' = DictSet(seen, Record(cur, cur_age))
    /\ NextItem(seen')
    /\ calls' = <<"contributors", "sleep">>
    /\ unpaced' = FALSE
    /\ UNCHANGED <<envVars, hits, warned, sheet, scoreVars>>

(* ------------------------------ main / sheets_writer --------------------- *)

(* main: the warning for an empty frame, then write_dataframe_to_sheet       *)
(* up to and including clear_worksheet.                                      *)
ClearWorksheet ==
    /\ pc = "clear"
    /\ warned' = (df = <<>>)
    /\ sheet' = <<>>
    /\ pc' = "update"
    /\ calls' = <<"sheets.clear">>
    /\ UNCHANGED <<envVars, ti, ki, hits, items, idx, seen, df, error, exit_code,
                   unpaced, scoreVars>>

(* values().update(...).execute(), the final print, exit status 0.           *)
UpdateSheet ==
    /\ pc = "update"
    /\ sheet' = SheetValues(df)
    /\ pc' = "exited"
    /\ exit_code' = <<0>>
    /\ calls' = <<"sheets.update">>
    /\ UNCHANGED <<envVars, ti, ki, hits, items, idx, seen, df, warned, error,
                   unpaced, scoreVars>>

(* A Sheets API call fails: HttpError propagates out of main.                *)
WriteFails ==
    /\ pc \in {"clear", "update"}
    /\ Crash("HttpError")
    /\ warned' = (IF pc = "clear" THEN df = <<>> ELSE warned)
    /\ calls' = <<IF pc = "clear" THEN "sheets.clear" ELSE "sheets.update">>
    /\ UNCHANGED <<envVars, ti, ki, hits, items, idx, seen, df, sheet, unpaced, scoreVars>>

Next ==
    \/ Tick
    \/ Star
    \/ SearchRaises
    \/ SearchHTTPError
    \/ SearchOk
    \/ SkipSeen
    \/ SkipOld
    \/ LookupRaises
    \/ RejectContributors
    \/ Accept
    \/ ClearWorksheet
    \/ UpdateSheet
    \/ WriteFails

Spec == Init /\ [][Next]_vars

(* ------------------------------ calc_score on its own -------------------- *)

CallCalcScore ==
    /\ ret_score = <<>>
    /\ ret_score' = <<calc_score(arg_repo, arg_age)>>
    /\ UNCHANGED <<envVars, pc, ti, ki, hits, items, idx, seen, df, warned, sheet,
                   error, exit_code, calls, unpaced, arg_repo, arg_age>>

NextScore == CallCalcScore

SpecScore == InitAnyScore /\ [][NextScore]_vars

(* ------------------------------ properties ------------------------------- *)

Range(s) == {s[i] : i \in 1..Len(s)}

UniqueNames(rows) == \A i, j \in 1..Len(rows) : rows[i].name = rows[j].name => i = j

(* collect_candidates has returned a DataFrame to main.                      *)
Returned == pc \in {"clear", "update", "exited"} \/ error = "HttpError"

(* Both loops of collect_candidates have run to their end.                   *)
LoopsExhausted == ti > Len(TOPICS)

(* C1: no full_name occurs twice in `seen` or in the returned frame, every   *)
(* returned row is an entry of `seen`, and an entry of `seen`, once stored,  *)
(* is never changed by a later occurrence of the same repository.            *)
C1_FirstSeenWins ==
    /\ [](/\ UniqueNames(seen)
          /\ UniqueNames(df)
          /\ Range(df) \subseteq Range(seen))
    /\ [][\A i \in 1..Len(seen) : i <= Len(seen') /\ seen'[i] = seen[i]]_vars

(* The job has ended; the last search returned repository 1 with a star      *)
(* count other than the one its row was built from.                          *)
C1_Witness ==
    /\ pc = "exited"
    /\ 1 \in hits
    /\ \E i \in 1..Len(df) :
         /\ df[i].name = 1
         /\ df[i].stars # RepoJson(1, gained).stargazers_count

(* C2: the returned frame has at most RESULT_TARGET rows, and once the       *)
(* loops are exhausted with k accepted repositories, min(k, RESULT_TARGET)   *)
(* rows are returned and no error is raised.                                 *)
C2_ResultLength ==
    /\ Len(df) <= RESULT_TARGET
    /\ LoopsExhausted => /\ Returned
                         /\ Len(df) = Min(Len(seen), RESULT_TARGET)

(* C3: when nothing was accepted the run still ends well: the frame is       *)
(* returned, the warning is printed, the sheet is cleared and an empty       *)
(* table written, and the exit status is 0.                                  *)
C3_EmptyRunSucceeds ==
    (LoopsExhausted /\ seen = <<>>) =>
        /\ Returned
        /\ pc = "exited" => (warned /\ exit_code = <<0>> /\ sheet = SheetValues(<<>>))

(* C4: a search request that fails, whatever the reason, never ends the      *)
(* process: the query is skipped.                                            *)
C4_SearchFailureSkips == calls = <<"search">> => pc # "crashed"

(* C5: a contributor lookup that fails never ends the process: 0 is used.    *)
C5_LookupFailureDefaults == calls = <<"contributors">> => pc # "crashed"

(* C6: an iteration of the item loop issues a contributor lookup, exactly    *)
(* one, if and only if the repository is not yet in `seen` and is at most    *)
(* 365 days old; no other step of the job issues one.                        *)
C6_CostRespecting ==
    [][/\ pc = "items" =>
            /\ ("contributors" \in Range(calls')) <=>
                   /\ \A j \in 1..Len(seen) : seen[j].name # cur.full_name
                   /\ cur_age <= 365
            /\ calls' \in {<<>>, <<"contributors">>, <<"contributors", "sleep">>}
       /\ (pc # "items" /\ calls' # calls) => "contributors" \notin Range(calls')]_vars

(* The previous iteration skipped a repository older than 365 days that is   *)
(* not in `seen`, without any request.                                       *)
C6_Witness ==
    /\ pc = "items"
    /\ idx > 1
    /\ calls = <<>>
    /\ today - items[idx - 1].created_at > 365
    /\ \A j \in 1..Len(seen) : seen[j].name # items[idx - 1].full_name

C8_ScoreFloor ==
    ret_score # <<>> =>
        LET raw == (MAX_STARS - arg_repo.stargazers_count) + (365 - arg_age)
                   + (IF arg_repo.has_sponsors THEN 50 ELSE 0)
        IN  /\ ret_score[1] >= 0
            /\ raw >= 0 => ret_score[1] = raw
            /\ raw < 0 => ret_score[1] = 0

(* calc_score was given arguments whose raw score is negative.               *)
C8_Witness ==
    /\ ret_score = <<0>>
    /\ (MAX_STARS - arg_repo.stargazers_count) + (365 - arg_age)
       + (IF arg_repo.has_sponsors THEN 50 ELSE 0) < 0

(* C9: a frame is returned only after every topic x keyword query was       *)
(* issued, however many repositories were accepted; it is in non-increasing  *)
(* score order and no accepted repository left out of it scores higher than  *)
(* one in it.                                                                *)
C9_RankThenTruncate ==
    /\ (pc \in {"search", "items"} /\ Len(seen) >= RESULT_TARGET) => df = <<>>
    /\ Returned =>
        /\ LoopsExhausted
        /\ \A i \in 1..Len(df) - 1 : df[i].score >= df[i + 1].score
        /\ Range(df) \subseteq Range(seen)
        /\ Len(df) = Min(Len(seen), RESULT_TARGET)
        /\ \A s \in Range(seen) \ Range(df) : \A d \in Range(df) : s.score <= d.score

(* More than RESULT_TARGET repositories were accepted and the frame was cut. *)
C9_Witness ==
    /\ pc = "exited"
    /\ Len(seen) > RESULT_TARGET
    /\ Len(df) = RESULT_TARGET
    /\ \E i \in 1..Len(df) - 1 : df[i].score > df[i + 1].score

(* C10: a step of the job that issues a search request or a contributor      *)
(* lookup is never taken while a contributor lookup is still waiting for     *)
(* its courtesy delay.                                                       *)
C10_DelayAfterEveryLookup ==
    [][(/\ loopVars' # loopVars
        /\ calls' # <<>>
        /\ calls'[1] \in {"search", "contributors"}) => ~unpaced]_vars

====
